---- MODULE Spec2Model ----
(***************************************************************************)
(* Keyra: passwordless (magic-link) authentication service.               *)
(*                                                                         *)
(* A model of app/modules/auth/service.py and app/modules/auth/router.py  *)
(* over the persisted tables of app/db/models.py (users, login_challenges,*)
(* sessions), the redis rate-limit counters and the bearer middleware of  *)
(* app/core/auth_middleware.py.                                            *)
(*                                                                         *)
(* Time is an integer number of seconds.  A nullable column holds None    *)
(* (the empty tuple) or Some(v) (a one-element tuple).  Tokens come from  *)
(* secrets.token_urlsafe: a fresh token never equals an earlier one, so   *)
(* the token of the i-th inserted row is modelled as the number i.        *)
(* The columns id / created_at / last_seen_at / request_ip /              *)
(* request_user_agent are written and never read by the service; a row's  *)
(* id is its position in the table, the other four are left out (and with *)
(* them the user agent of a magic-link request, which goes nowhere else). *)
(***************************************************************************)
EXTENDS Integers, Sequences, FiniteSets, TLC

VARIABLES now, ticks, requests, rl, users, challenges, sessions,
          access_tokens, tx, last, verify_ok, refresh_ok

vars == <<now, ticks, requests, rl, users, challenges, sessions,
          access_tokens, tx, last, verify_ok, refresh_ok>>

----------------------------------------------------------------------------
(* Bounds of the model *)

MaxTicks == 1

MaxRateTicks == 2

MaxRequests == 6

MaxChallenges == 2

MaxSessions == 3

MaxProcs == 2

MaxChains == 1

----------------------------------------------------------------------------
(* Program constants *)

MAGIC_LINK_TTL_MINUTES == 10

RATE_LIMIT_WINDOW_SECONDS == 600

RATE_LIMIT_MAX == 5

access_token_ttl_minutes == 15

refresh_token_ttl_days == 30

SecondsPerMinute == 60

SecondsPerDay == 24 * 60 * 60

----------------------------------------------------------------------------
(* Values *)

None == <<>>

Some(v) == <<v>>

\* The clock advances by half a rate-limit window (a challenge and a counter
\* live for two of these) or by a whole refresh lifetime (which ends every
\* credential issued before it, the refresh token exactly).
HalfWindow == RATE_LIMIT_WINDOW_SECONDS \div 2

RefreshLifetime == refresh_token_ttl_days * SecondsPerDay

\* Request-side inputs.
RawEmails == {<<"a">>, <<" ", "A", " ">>, <<"b">>}

\* The (client address, user-agent header) of a verify or refresh request:
\* each value is present and equal, present and different, or absent; a
\* User-Agent header can also be sent with an empty value.
HomeClient == <<Some("10.0.0.1"), Some("ua1")>>

Clients == {HomeClient,
            <<Some("10.0.0.2"), Some("ua1")>>,
            <<Some("10.0.0.1"), Some("ua2")>>,
            <<Some("10.0.0.1"), Some("")>>,
            <<None, None>>}

\* The addresses magic links are requested from.
RequestIPs == {None, Some("10.0.0.1")}

Procs == 1..MaxProcs

----------------------------------------------------------------------------
(* Pure functions of service.py *)

IsSpace(c) == c = " "

LowerChar(c) == CASE c = "A" -> "a" [] c = "B" -> "b" [] OTHER -> c

RECURSIVE LStrip(_)
LStrip(s) == IF s # <<>> /\ IsSpace(Head(s)) THEN LStrip(Tail(s)) ELSE s

RECURSIVE RStrip(_)
RStrip(s) ==
    IF s # <<>> /\ IsSpace(s[Len(s)]) THEN RStrip(SubSeq(s, 1, Len(s) - 1)) ELSE s

Strip(s) == RStrip(LStrip(s))

Lower(s) == [i \in 1..Len(s) |-> LowerChar(s[i])]

normalize_email(email) == Lower(Strip(email))

\* sha256 hex digest: deterministic and (for the tokens in play) injective.
hash_token(token) == <<"sha256", token>>

Emails == {normalize_email(r) : r \in RawEmails}

----------------------------------------------------------------------------
(* Redis rate-limit counters: a key holds a count and the time it expires *)
(* at; first_at is a history field, the time of the increment that        *)
(* created the key.                                                        *)

RLKeys == {<<"rl:magic:email", e>> : e \in Emails}
          \cup {<<"rl:magic:ip", i>> : i \in {"unknown", "10.0.0.1"}}

NoKey == [count |-> 0, expire_at |-> 0, first_at |-> 0]

\* A key is there until its time to live has run out.
Live(k) == rl[k].count > 0 /\ now < rl[k].expire_at

\* INCR key: a missing (or expired) key counts from 0.
Incr(k) == IF Live(k) THEN [rl[k] EXCEPT !.count = @ + 1]
           ELSE [count |-> 1, expire_at |-> 0, first_at |-> now]

\* EXPIRE key seconds
Expire(entry, seconds) == [entry EXCEPT !.expire_at = now + seconds]

\* The pipeline of check_rate_limit: INCR and EXPIRE of both keys.
RateLimitPipeline(key_email, key_ip) ==
    [k \in RLKeys |->
        IF k = key_email \/ k = key_ip
        THEN Expire(Incr(k), RATE_LIMIT_WINDOW_SECONDS)
        ELSE rl[k]]

RateLimitKeyIp(ip) == <<"rl:magic:ip", IF ip = None THEN "unknown" ELSE ip[1]>>

RateLimitKeyEmail(email) == <<"rl:magic:email", email>>

\* A limiter that already denies the fifth request.
RateLimitAllowedOffByOne(email_count, ip_count) ==
    ~(email_count >= RATE_LIMIT_MAX \/ ip_count >= RATE_LIMIT_MAX)

\* The verdict of check_rate_limit on the counts the pipeline returned.
RateLimitAllowed(email_count, ip_count) ==
    ~(email_count > RATE_LIMIT_MAX \/ ip_count > RATE_LIMIT_MAX)

----------------------------------------------------------------------------
(* Responses *)

NoResponse == [op |-> "none", status |-> 0, detail |-> "none"]

IdleTx == [op |-> "idle", pc |-> "idle"]

\* A lookup that never finds a user, on a table without a unique index.
UserByEmailNone(email) == {}

\* SELECT ... FROM users WHERE email = :email (users.email is unique)
UserByEmail(email) == {u \in 1..Len(users) : users[u].email = email}

----------------------------------------------------------------------------

Init ==
    /\ now = 0
    /\ ticks = 0
    /\ requests = 0
    /\ rl = [k \in RLKeys |-> NoKey]
    /\ users = <<>>
    /\ challenges = <<>>
    /\ sessions = <<>>
    /\ access_tokens = {}
    /\ tx = [p \in Procs |-> IdleTx]
    /\ last = NoResponse
    /\ verify_ok = <<>>
    /\ refresh_ok = <<>>

\* Time passes.
Tick(steps, limit) ==
    /\ ticks < limit
    /\ \E d \in steps : now' = now + d
    /\ ticks' = ticks + 1
    /\ UNCHANGED <<requests, rl, users, challenges, sessions, access_tokens,
                   tx, last, verify_ok, refresh_ok>>

\* create_login_challenge: one row, committed at once.
NewChallenge(email, token) ==
    [email |-> email,
     token_hash |-> hash_token(token),
     expires_at |-> now + MAGIC_LINK_TTL_MINUTES * SecondsPerMinute,
     used_at |-> None]

\* A handler that tells the caller it was rate-limited.
RateLimitedResponse429 == [status |-> 429, detail |-> "rate_limited"]

\* The two returns of request_magic_link: MagicLinkResponse(), status 200.
RateLimitedResponse == [status |-> 200, detail |-> "ok"]

AdmittedResponse == [status |-> 200, detail |-> "ok"]

\* POST /auth/magic/request.  kv_up = FALSE is a request made while redis
\* cannot be reached: pipe.execute() raises, nothing catches it and the
\* framework answers 500.  requests counts the pipelines redis has run.
request_magic_link(raw_email, client_ip, kv_up) ==
    LET email == normalize_email(raw_email)
        key_email == RateLimitKeyEmail(email)
        key_ip == RateLimitKeyIp(client_ip)
        results == RateLimitPipeline(key_email, key_ip)
        email_count == results[key_email].count
        ip_count == results[key_ip].count
        allowed == RateLimitAllowed(email_count, ip_count)
    IN  /\ IF ~kv_up
           THEN /\ UNCHANGED <<requests, rl, challenges, verify_ok>>
                /\ last' = [op |-> "magic_request", status |-> 500,
                            detail |-> "internal_error",
                            aux |-> [kv_up |-> FALSE, inserted |-> 0,
                                     user_exists |-> UserByEmail(email) # {}]]
           ELSE /\ requests' = requests + 1
                /\ rl' = results
                /\ IF allowed
                   THEN /\ challenges' = Append(challenges,
                                NewChallenge(email, Len(challenges) + 1))
                        /\ verify_ok' = Append(verify_ok, 0)
                   ELSE UNCHANGED <<challenges, verify_ok>>
                /\ last' = [op |-> "magic_request",
                            status |-> (IF allowed THEN AdmittedResponse
                                        ELSE RateLimitedResponse).status,
                            detail |-> (IF allowed THEN AdmittedResponse
                                        ELSE RateLimitedResponse).detail,
                            aux |-> [kv_up |-> TRUE,
                                     inserted |-> Len(challenges') - Len(challenges),
                                     user_exists |-> UserByEmail(email) # {},
                                     email_count |-> email_count,
                                     ip_count |-> ip_count]]
        /\ UNCHANGED <<now, ticks, users, sessions, access_tokens, tx, refresh_ok>>

RequestMagicLink(ips, kv) ==
    \E raw \in RawEmails, ip \in ips, up \in kv :
        request_magic_link(raw, ip, up)

----------------------------------------------------------------------------
(* Bearer tokens: create_access_token and the middleware's decoder.        *)

\* create_access_token: the claims of the signed token (iat = exp - ttl);
\* sig stands for the HS256 signature under settings.jwt_secret.
create_access_token(user_id) ==
    [sub |-> user_id,
     exp |-> now + access_token_ttl_minutes * SecondsPerMinute,
     sig |-> "jwt_secret"]

\* A token made without the secret, naming the first user and not expired.
ForgedToken == [create_access_token(1) EXCEPT !.sig = "other"]

\* What a request can carry as its access_token cookie: nothing, a token
\* this service signed, or a forged one.
AccessCookies == {None, Some(ForgedToken)} \cup {Some(t) : t \in access_tokens}

\* A decoder that checks the signature and not the expiry.
DecodeIgnoringExpiry(token) ==
    IF token.sig # "jwt_secret" THEN None ELSE Some(token.sub)

\* decode_access_token: jwt.decode raises (a PyJWTError) on a bad signature
\* and on exp <= now; the subject otherwise.
decode_access_token(token) ==
    IF token.sig # "jwt_secret" THEN None
    ELSE IF token.exp <= now THEN None
    ELSE Some(token.sub)

\* jwt_auth_middleware: request.state.user_id
jwt_auth_middleware(cookie) ==
    IF cookie # None THEN decode_access_token(cookie[1]) ELSE None

----------------------------------------------------------------------------
(* Row locks (SELECT ... FOR UPDATE) held by the open transactions.        *)

Busy(p) == tx[p].pc = "locked"

\* tx lists the open transactions, oldest first: a new one takes the first
\* free place, and a transaction that ends leaves the list.
Free(p) == tx[p] = IdleTx /\ \A q \in Procs : q < p => Busy(q)

Close(p) ==
    [q \in Procs |->
        IF q < p THEN tx[q]
        ELSE IF q + 1 \in Procs THEN tx[q + 1]
        ELSE IdleTx]

ChallengeLockedByOther(p, c) ==
    \E q \in Procs \ {p} : Busy(q) /\ tx[q].op = "verify" /\ tx[q].row = c

\* A select without FOR UPDATE waits for nobody.
SessionNeverLocked(p, s) == FALSE

SessionLockedByOther(p, s) ==
    \E q \in Procs \ {p} :
        Busy(q) /\ tx[q].op \in {"refresh", "logout"} /\ tx[q].row = s

\* Transactions that may still insert a session row.
Inserting == {q \in Procs : Busy(q) /\ tx[q].op \in {"verify", "refresh"}}

Respond(op, status, detail, aux) ==
    [op |-> op, status |-> status, detail |-> detail, aux |-> aux]

----------------------------------------------------------------------------
(* POST /auth/magic/verify                                                 *)

\* A select that forgets the used_at filter.
ValidChallengesReusable(token, at) ==
    {c \in 1..Len(challenges) :
        /\ challenges[c].token_hash = hash_token(token)
        /\ challenges[c].expires_at > at}

\* The SELECT ... FOR UPDATE of verify_magic_token_and_create_session.
ValidChallenges(token, at) ==
    {c \in 1..Len(challenges) :
        /\ challenges[c].token_hash = hash_token(token)
        /\ challenges[c].used_at = None
        /\ challenges[c].expires_at > at}

\* The handler opens its transaction, reads the clock and runs the locking
\* select: no row is ValueError (the transaction is rolled back, 400); a row
\* locked by another transaction makes it wait; otherwise the row is locked
\* and the user is looked up by the challenge's email.
VerifyStart(p, token, ip, ua) ==
    /\ Free(p)
    /\ Len(sessions) + Cardinality(Inserting) < MaxSessions
    /\ LET found == ValidChallenges(token, now)
       IN  IF found = {}
           THEN /\ last' = Respond("verify", 400, "invalid_or_expired_token",
                                   [row |-> 0, token |-> token])
                /\ UNCHANGED tx
           ELSE \E c \in found :
                /\ ~ChallengeLockedByOther(p, c)
                /\ tx' = [tx EXCEPT ![p] =
                            [op |-> "verify", pc |-> "locked", row |-> c,
                             now |-> now, ip |-> ip, ua |-> ua,
                             user |-> UserByEmail(challenges[c].email)]]
                /\ UNCHANGED last
    /\ UNCHANGED <<now, ticks, requests, rl, users, challenges, sessions,
                   access_tokens, verify_ok, refresh_ok>>

\* A session row that forgets which session it was rotated from.
NewSessionUnlinked(user_id, token, at, rotated_from, ip, ua) ==
    [user_id |-> user_id,
     refresh_token_hash |-> hash_token(token),
     refresh_expires_at |-> at + refresh_token_ttl_days * SecondsPerDay,
     rotated_from_session_id |-> None,
     revoked_at |-> None,
     ip |-> ip,
     user_agent |-> ua]

\* UserSession(...): the row verify and rotate insert.
NewSession(user_id, token, at, rotated_from, ip, ua) ==
    [user_id |-> user_id,
     refresh_token_hash |-> hash_token(token),
     refresh_expires_at |-> at + refresh_token_ttl_days * SecondsPerDay,
     rotated_from_session_id |-> rotated_from,
     revoked_at |-> None,
     ip |-> ip,
     user_agent |-> ua]

\* The rest of the transaction: used_at, the user (inserted when the lookup
\* found none: the unique index on users.email raises IntegrityError when a
\* concurrent transaction has committed that email meanwhile, which is no
\* ValueError, so the transaction is rolled back and the framework answers
\* 500), the session, the access token, commit.
VerifyFinish(p) ==
    /\ Busy(p) /\ tx[p].op = "verify"
    /\ LET t == tx[p]
           c == t.row
           email == challenges[c].email
           aux == [row |-> c, now |-> t.now, exp |-> challenges[c].expires_at]
       IN  IF t.user = {} /\ UserByEmail(email) # {}
           THEN /\ last' = Respond("verify", 500, "internal_error", aux)
                /\ UNCHANGED <<users, challenges, sessions, access_tokens,
                               verify_ok, refresh_ok>>
           ELSE LET user_id == IF t.user = {} THEN Len(users) + 1
                               ELSE CHOOSE u \in t.user : TRUE
                IN  /\ challenges' = [challenges EXCEPT ![c].used_at = Some(t.now)]
                    /\ users' = IF t.user = {}
                                THEN Append(users, [email |-> email])
                                ELSE users
                    /\ sessions' = Append(sessions,
                            NewSession(user_id, Len(sessions) + 1, t.now, None,
                                       t.ip, t.ua))
                    /\ refresh_ok' = Append(refresh_ok, 0)
                    /\ access_tokens' =
                            access_tokens \cup {create_access_token(user_id)}
                    /\ verify_ok' = [verify_ok EXCEPT ![c] = @ + 1]
                    /\ last' = Respond("verify", 200, "ok", aux)
    /\ tx' = Close(p)
    /\ UNCHANGED <<now, ticks, requests, rl>>

----------------------------------------------------------------------------
(* Revocation of a rotation chain                                          *)

SessionIds(tbl) == 1..Len(tbl)

\* SELECT id WHERE rotated_from_session_id = current_id, in table order.
RECURSIVE ChildIds(_, _, _)
ChildIds(tbl, current_id, i) ==
    IF i > Len(tbl) THEN <<>>
    ELSE (IF tbl[i].rotated_from_session_id = Some(current_id)
          THEN <<i>> ELSE <<>>) \o ChildIds(tbl, current_id, i + 1)

\* for child_id in child_ids: if child_id not in ids: ids.append(child_id)
RECURSIVE AppendNew(_, _)
AppendNew(ids, child_ids) ==
    IF child_ids = <<>> THEN ids
    ELSE AppendNew(IF \E k \in 1..Len(ids) : ids[k] = Head(child_ids)
                   THEN ids ELSE Append(ids, Head(child_ids)),
                   Tail(child_ids))

\* A traversal that stops at the children of the root.
RECURSIVE CollectLoopOneLevel(_, _, _)
CollectLoopOneLevel(tbl, ids, idx) ==
    IF idx > 1 THEN ids
    ELSE CollectLoopOneLevel(tbl, AppendNew(ids, ChildIds(tbl, ids[idx], 1)),
                             idx + 1)

\* The while loop of _collect_session_chain_ids.
RECURSIVE CollectLoop(_, _, _)
CollectLoop(tbl, ids, idx) ==
    IF idx > Len(ids) THEN ids
    ELSE CollectLoop(tbl, AppendNew(ids, ChildIds(tbl, ids[idx], 1)), idx + 1)

collect_session_chain_ids(tbl, root_session_id) ==
    LET ids == CollectLoop(tbl, <<root_session_id>>, 1)
    IN  {ids[k] : k \in 1..Len(ids)}

\* UPDATE sessions SET revoked_at = :at WHERE id IN (ids)
revoke_session_chain(tbl, root_session_id, at) ==
    LET ids == collect_session_chain_ids(tbl, root_session_id)
    IN  [i \in SessionIds(tbl) |->
            IF i \in ids THEN [tbl[i] EXCEPT !.revoked_at = Some(at)] ELSE tbl[i]]

----------------------------------------------------------------------------
(* POST /auth/refresh                                                      *)

\* A select that only finds sessions that are not revoked.
SessionsByTokenActive(token) ==
    {i \in 1..Len(sessions) :
        /\ sessions[i].refresh_token_hash = hash_token(token)
        /\ sessions[i].revoked_at = None}

\* SELECT ... WHERE refresh_token_hash = :token_hash
SessionsByToken(token) ==
    {i \in SessionIds(sessions) : sessions[i].refresh_token_hash = hash_token(token)}

\* The truth value Python gives an Optional[str] in a condition: None and
\* the empty string are both false.
Truthy(v) == v # None /\ v[1] # ""

\* The two comparisons of rotate_refresh_token: stored and presented value
\* both true and different.
IpMismatch(current, request_ip) ==
    Truthy(current.ip) /\ Truthy(request_ip) /\ current.ip # request_ip

UserAgentMismatch(current, request_user_agent) ==
    /\ Truthy(current.user_agent)
    /\ Truthy(request_user_agent)
    /\ current.user_agent # request_user_agent

\* A rotation that leaves the presented session as it was.
MarkRevokedForgotten(row, at) == row

\* current_session.revoked_at = now
MarkRevoked(row, at) == [row EXCEPT !.revoked_at = Some(at)]

\* An expiry test that lets the last second through.
RefreshExpiredStrict(current, at) == current.refresh_expires_at < at

\* if current_session.refresh_expires_at <= now
RefreshExpired(current, at) == current.refresh_expires_at <= at

\* rotate_refresh_token after its locking select: the tag it raises ("ok"
\* when it returns) and the session table as its statements leave it inside
\* the transaction.  current is the row as the select read it.
rotate_refresh_token(tbl, sid, current, at, request_ip, request_user_agent) ==
    IF current.revoked_at # None
    THEN [detail |-> "refresh_token_reuse",
          sessions |-> revoke_session_chain(tbl, sid, at)]
    ELSE IF RefreshExpired(current, at)
    THEN [detail |-> "refresh_token_expired",
          sessions |-> revoke_session_chain(tbl, sid, at)]
    ELSE IF IpMismatch(current, request_ip)
    THEN [detail |-> "session_hijacking",
          sessions |-> revoke_session_chain(tbl, sid, at)]
    ELSE IF UserAgentMismatch(current, request_user_agent)
    THEN [detail |-> "session_hijacking",
          sessions |-> revoke_session_chain(tbl, sid, at)]
    ELSE [detail |-> "ok",
          sessions |-> Append([tbl EXCEPT ![sid] = MarkRevoked(@, at)],
                              NewSession(current.user_id, Len(tbl) + 1, at,
                                         Some(sid), request_ip,
                                         request_user_agent))]

\* A transaction block that commits whatever was written before the raise.
SessionBeginCommitsAlways(outcome) == outcome.sessions

\* async with session.begin(): the block's writes are committed when it
\* returns and rolled back when it raises.
SessionBegin(outcome) ==
    IF outcome.detail = "ok" THEN outcome.sessions ELSE sessions

\* The locking select of the session by the digest of the presented cookie.
RefreshStart(p, cookie, ip, ua) ==
    /\ Free(p)
    /\ IF cookie = None
       THEN /\ last' = Respond("refresh", 401, "missing_refresh_token",
                               [row |-> 0])
            /\ UNCHANGED tx
       ELSE LET found == SessionsByToken(cookie[1])
            IN  IF found = {}
                THEN /\ last' = Respond("refresh", 401, "invalid_refresh_token",
                                        [row |-> 0])
                     /\ UNCHANGED tx
                ELSE \E s \in found :
                     /\ ~SessionLockedByOther(p, s)
                     /\ rotate_refresh_token(sessions, s, sessions[s], now,
                                             ip, ua).detail = "ok"
                            => Len(sessions) + Cardinality(Inserting) < MaxSessions
                     /\ tx' = [tx EXCEPT ![p] =
                                [op |-> "refresh", pc |-> "locked", row |-> s,
                                 now |-> now, ip |-> ip, ua |-> ua,
                                 current |-> sessions[s]]]
                     /\ UNCHANGED last
    /\ UNCHANGED <<now, ticks, requests, rl, users, challenges, sessions,
                   access_tokens, verify_ok, refresh_ok>>

\* A locking select that finds its row locked by another transaction has
\* read the clock and waits; seen is the row version of its snapshot.
RefreshWait(p, cookie, ip, ua) ==
    /\ Free(p)
    /\ cookie # None
    /\ \E s \in SessionsByToken(cookie[1]) :
            /\ SessionLockedByOther(p, s)
            /\ tx' = [tx EXCEPT ![p] =
                        [op |-> "refresh", pc |-> "waiting", row |-> s,
                         now |-> now, ip |-> ip, ua |-> ua,
                         seen |-> sessions[s]]]
    /\ UNCHANGED <<now, ticks, requests, rl, users, challenges, sessions,
                   access_tokens, last, verify_ok, refresh_ok>>

\* A select that returns the row version it saw before it waited.
RowBeforeWait(p) == tx[p].seen

\* READ COMMITTED: when the lock is granted the select returns the newest
\* committed version of the row (its WHERE clause, the digest, still holds).
RowAfterWait(p) == sessions[tx[p].row]

Waiting(p) == tx[p].pc = "waiting"

\* The lock holder has ended: the waiting select gets the lock and its row.
RefreshResume(p) ==
    /\ Waiting(p) /\ tx[p].op = "refresh"
    /\ ~SessionLockedByOther(p, tx[p].row)
    /\ rotate_refresh_token(sessions, tx[p].row, RowAfterWait(p), tx[p].now,
                            tx[p].ip, tx[p].ua).detail = "ok"
            => Len(sessions) + Cardinality(Inserting) < MaxSessions
    /\ tx' = [tx EXCEPT ![p] =
                [op |-> "refresh", pc |-> "locked", row |-> tx[p].row,
                 now |-> tx[p].now, ip |-> tx[p].ip, ua |-> tx[p].ua,
                 seen |-> tx[p].seen, current |-> RowAfterWait(p)]]
    /\ UNCHANGED <<now, ticks, requests, rl, users, challenges, sessions,
                   access_tokens, last, verify_ok, refresh_ok>>

\* The rest of rotate_refresh_token and the end of the transaction.  The
\* UPDATE of a chain waits for the rows another transaction has locked.
RefreshFinish(p) ==
    /\ Busy(p) /\ tx[p].op = "refresh"
    /\ LET t == tx[p]
           outcome == rotate_refresh_token(sessions, t.row, t.current, t.now,
                                           t.ip, t.ua)
           aux == [row |-> t.row, now |-> t.now,
                   exp |-> t.current.refresh_expires_at]
       IN  /\ outcome.detail # "ok" =>
                \A s \in collect_session_chain_ids(sessions, t.row) :
                    ~SessionLockedByOther(p, s)
           /\ sessions' = SessionBegin(outcome)
           /\ IF outcome.detail = "ok"
              THEN /\ refresh_ok' = Append([refresh_ok EXCEPT ![t.row] = @ + 1], 0)
                   /\ access_tokens' = access_tokens
                            \cup {create_access_token(t.current.user_id)}
                   /\ last' = Respond("refresh", 200, "ok", aux)
              ELSE /\ UNCHANGED <<refresh_ok, access_tokens>>
                   /\ last' = Respond("refresh", 401, outcome.detail, aux)
    /\ tx' = Close(p)
    /\ UNCHANGED <<now, ticks, requests, rl, users, challenges, verify_ok>>

----------------------------------------------------------------------------
(* POST /auth/logout                                                       *)

\* revoke_session_by_refresh_token up to its locking select.
LogoutStart(p, cookie) ==
    /\ Free(p)
    /\ IF cookie = None
       THEN /\ last' = Respond("logout", 401, "missing_refresh_token",
                               [row |-> 0])
            /\ UNCHANGED tx
       ELSE LET found == SessionsByToken(cookie[1])
            IN  IF found = {}
                THEN /\ last' = Respond("logout", 401, "invalid_refresh_token",
                                        [row |-> 0, token |-> cookie[1]])
                     /\ UNCHANGED tx
                ELSE \E s \in found :
                     /\ ~SessionLockedByOther(p, s)
                     /\ tx' = [tx EXCEPT ![p] =
                                [op |-> "logout", pc |-> "locked", row |-> s,
                                 now |-> now]]
                     /\ UNCHANGED last
    /\ UNCHANGED <<now, ticks, requests, rl, users, challenges, sessions,
                   access_tokens, verify_ok, refresh_ok>>

\* A logout that revokes the presented session with all its descendants.
RevokeWithDescendants(tbl, sid, at) == revoke_session_chain(tbl, sid, at)

\* current_session.revoked_at = now
revoke_session_by_refresh_token(tbl, sid, at) ==
    [tbl EXCEPT ![sid].revoked_at = Some(at)]

LogoutFinish(p) ==
    /\ Busy(p) /\ tx[p].op = "logout"
    /\ sessions' = revoke_session_by_refresh_token(sessions, tx[p].row, tx[p].now)
    /\ last' = Respond("logout", 200, "ok", [row |-> tx[p].row, now |-> tx[p].now])
    /\ tx' = Close(p)
    /\ UNCHANGED <<now, ticks, requests, rl, users, challenges, access_tokens,
                   verify_ok, refresh_ok>>

----------------------------------------------------------------------------
(* POST /auth/logout-all and GET /auth/me                                  *)

\* An UPDATE without its WHERE clause.
SessionsOfAnyUser(tbl, user_id) == 1..Len(tbl)

\* The rows the UPDATE of revoke_all_sessions_for_user finds: those
\* committed when the statement starts.
SessionsOfUser(tbl, user_id) == {i \in SessionIds(tbl) : tbl[i].user_id = user_id}

\* _get_user_id_from_request fails closed; otherwise the UPDATE starts.
LogoutAllStart(p, cookie) ==
    /\ Free(p)
    /\ LET user_id == jwt_auth_middleware(cookie)
       IN  IF user_id = None
           THEN /\ last' = Respond("logout_all", 401, "unauthorized",
                                   [user_id |-> None])
                /\ UNCHANGED tx
           ELSE /\ tx' = [tx EXCEPT ![p] =
                            [op |-> "logout_all", pc |-> "locked",
                             user_id |-> user_id[1], now |-> now,
                             exp |-> cookie[1].exp,
                             rows |-> SessionsOfUser(sessions, user_id[1])]]
                /\ UNCHANGED last
    /\ UNCHANGED <<now, ticks, requests, rl, users, challenges, sessions,
                   access_tokens, verify_ok, refresh_ok>>

\* UPDATE sessions SET revoked_at = :at WHERE user_id = :user_id
revoke_all_sessions_for_user(tbl, rows, at) ==
    [i \in SessionIds(tbl) |->
        IF i \in rows THEN [tbl[i] EXCEPT !.revoked_at = Some(at)] ELSE tbl[i]]

\* The UPDATE takes each row's lock, waiting for the transactions that hold
\* one, writes and commits.
LogoutAllFinish(p) ==
    /\ Busy(p) /\ tx[p].op = "logout_all"
    /\ \A s \in tx[p].rows : ~SessionLockedByOther(p, s)
    /\ sessions' = revoke_all_sessions_for_user(sessions, tx[p].rows, tx[p].now)
    /\ last' = Respond("logout_all", 200, "ok",
                       [user_id |-> Some(tx[p].user_id), now |-> tx[p].now,
                        exp |-> tx[p].exp])
    /\ tx' = Close(p)
    /\ UNCHANGED <<now, ticks, requests, rl, users, challenges, access_tokens,
                   verify_ok, refresh_ok>>

\* get_user_by_id
UserExists(user_id) == user_id \in 1..Len(users)

Me(cookie) ==
    /\ LET user_id == jwt_auth_middleware(cookie)
       IN  last' = IF user_id # None /\ UserExists(user_id[1])
                   THEN Respond("me", 200, "ok",
                                [user_id |-> user_id, now |-> now,
                                 exp |-> cookie[1].exp])
                   ELSE Respond("me", 401, "unauthorized",
                                [user_id |-> None, cookie |-> cookie])
    /\ UNCHANGED <<now, ticks, requests, rl, users, challenges, sessions,
                   access_tokens, tx, verify_ok, refresh_ok>>

----------------------------------------------------------------------------
(* The service *)

\* Tokens a request can present: those issued so far and one never issued.
MagicTokens == 0..Len(challenges)

RefreshCookies == {None} \cup {Some(t) : t \in 0..Len(sessions)}

\* The whole service, two requests at a time, from one client.
Next ==
    \/ requests < MaxChallenges /\ RequestMagicLink({None}, {TRUE})
    \/ \E p \in Procs, token \in MagicTokens :
            VerifyStart(p, token, HomeClient[1], HomeClient[2])
    \/ \E p \in Procs : VerifyFinish(p)
    \/ \E p \in Procs, cookie \in RefreshCookies :
            RefreshStart(p, cookie, HomeClient[1], HomeClient[2])
    \/ \E p \in Procs : RefreshFinish(p)
    \/ \E p \in Procs, cookie \in RefreshCookies : LogoutStart(p, cookie)
    \/ \E p \in Procs : LogoutFinish(p)
    \/ \E p \in Procs, cookie \in AccessCookies : LogoutAllStart(p, cookie)
    \/ \E p \in Procs : LogoutAllFinish(p)
    \/ Tick({RefreshLifetime}, MaxTicks)

Spec == Init /\ [][Next]_vars

----------------------------------------------------------------------------
(* The rate limiter on its own: requests from two addresses, redis there   *)
(* or not, and the clock.                                                  *)

NextRate ==
    \/ requests < MaxRequests /\ RequestMagicLink(RequestIPs, BOOLEAN)
    \/ Tick({HalfWindow, RefreshLifetime}, MaxRateTicks)

SpecRate == Init /\ [][NextRate]_vars

\* Magic-link requests for emails that may have a user by now.
NextEnum ==
    \/ requests < MaxRequests /\ RequestMagicLink(RequestIPs, BOOLEAN)
    \/ \E token \in MagicTokens : VerifyStart(1, token, HomeClient[1], HomeClient[2])
    \/ VerifyFinish(1)

SpecEnum == Init /\ [][NextEnum]_vars

\* One rotation chain, one request at a time, from every client.
NextHijack ==
    \/ requests < MaxChains /\ RequestMagicLink({None}, {TRUE})
    \/ \E token \in MagicTokens, c \in Clients : VerifyStart(1, token, c[1], c[2])
    \/ VerifyFinish(1)
    \/ \E cookie \in RefreshCookies, c \in Clients :
            RefreshStart(1, cookie, c[1], c[2])
    \/ RefreshFinish(1)
    \/ Tick({RefreshLifetime}, MaxTicks)

SpecHijack == Init /\ [][NextHijack]_vars

\* The bearer-protected operations, one request at a time, while access
\* tokens age and expire.
NextBearer ==
    \/ requests < MaxChallenges /\ RequestMagicLink({None}, {TRUE})
    \/ \E token \in MagicTokens : VerifyStart(1, token, HomeClient[1], HomeClient[2])
    \/ VerifyFinish(1)
    \/ \E cookie \in RefreshCookies :
            RefreshStart(1, cookie, HomeClient[1], HomeClient[2])
    \/ RefreshFinish(1)
    \/ \E cookie \in AccessCookies : LogoutAllStart(1, cookie)
    \/ LogoutAllFinish(1)
    \/ \E cookie \in AccessCookies : Me(cookie)
    \/ Tick({HalfWindow, RefreshLifetime}, MaxTicks)

SpecBearer == Init /\ [][NextBearer]_vars

\* Two refresh requests at a time on one rotation chain, the second one
\* waiting for the row lock of the first.
NextRace ==
    \/ requests < MaxChains /\ RequestMagicLink({None}, {TRUE})
    \/ \E p \in Procs, token \in MagicTokens :
            VerifyStart(p, token, HomeClient[1], HomeClient[2])
    \/ \E p \in Procs : VerifyFinish(p)
    \/ \E p \in Procs, cookie \in RefreshCookies :
            RefreshStart(p, cookie, HomeClient[1], HomeClient[2])
    \/ \E p \in Procs, cookie \in RefreshCookies :
            RefreshWait(p, cookie, HomeClient[1], HomeClient[2])
    \/ \E p \in Procs : RefreshResume(p)
    \/ \E p \in Procs : RefreshFinish(p)
    \/ Tick({RefreshLifetime}, MaxTicks)

SpecRace == Init /\ [][NextRace]_vars

----------------------------------------------------------------------------
(* Properties *)

IsResponse(op, detail) == last.op = op /\ last.detail = detail

\* C1: every login challenge is verified successfully at most once, whatever
\* the order and overlap of the verify calls that present its token.
SingleUseChallenge ==
    \A c \in 1..Len(challenges) : verify_ok[c] <= 1

\* A challenge has been verified and a later presentation of its token was
\* turned down.
SingleUseChallengeWitness ==
    /\ IsResponse("verify", "invalid_or_expired_token")
    /\ last.aux.token \in 1..Len(challenges)
    /\ verify_ok[last.aux.token] = 1

\* C2: every refresh token is rotated successfully at most once, whatever
\* the order and overlap of the refresh calls that present it.
RefreshUniqueness ==
    \A s \in SessionIds(sessions) : refresh_ok[s] <= 1

\* A token was rotated and a later presentation of it was turned down.
RefreshUniquenessWitness ==
    /\ IsResponse("refresh", "refresh_token_reuse")
    /\ refresh_ok[last.aux.row] = 1

\* C3: once a refresh has been answered refresh_token_reuse for session s,
\* s and every descendant of s in the rotation chain are revoked in the
\* database, no later than the time of the detection.
ReuseRevokesChain ==
    IsResponse("refresh", "refresh_token_reuse") =>
        \A d \in collect_session_chain_ids(sessions, last.aux.row) :
            /\ sessions[d].revoked_at # None
            /\ sessions[d].revoked_at[1] <= last.aux.now

\* C4: once a refresh has been answered session_hijacking, the presented
\* session is revoked in the database.
HijackRevokesSession ==
    IsResponse("refresh", "session_hijacking") =>
        sessions[last.aux.row].revoked_at # None

\* C5: a revoked_at that is set is never cleared and never changed.
MonotoneRevocation ==
    [][\A i \in SessionIds(sessions) :
            sessions[i].revoked_at # None =>
                sessions'[i].revoked_at = sessions[i].revoked_at]_vars

\* C6: a verify, a refresh or a bearer-authenticated call that succeeds was
\* made with a credential that expires after the time the call read.
ExpiredNeverAccepted ==
    (last.op \in {"verify", "refresh", "logout_all"} /\ last.status = 200)
        => last.aux.exp > last.aux.now

\* A session presented at the very second it expires was turned down.
ExpiredNeverAcceptedWitness ==
    /\ IsResponse("refresh", "refresh_token_expired")
    /\ last.aux.exp = last.aux.now

\* C7: the answer to a magic-link request is the same whether or not a user
\* has the email and whether or not the request was rate-limited: 200 "ok"
\* (and, for both alike, the framework's 500 when redis cannot be reached).
EnumerationResistance ==
    last.op = "magic_request" =>
        <<last.status, last.detail>> =
            IF last.aux.kv_up THEN <<200, "ok">> ELSE <<500, "internal_error">>

\* A rate-limited request for the email of an existing user was answered.
EnumerationResistanceWitness ==
    /\ last.op = "magic_request"
    /\ last.aux.kv_up
    /\ last.aux.user_exists
    /\ last.aux.inserted = 0

\* The challenges inserted for an email since its counter was created.
InsertedInWindow(email) ==
    {c \in 1..Len(challenges) :
        /\ challenges[c].email = email
        /\ challenges[c].expires_at - MAGIC_LINK_TTL_MINUTES * SecondsPerMinute
                >= rl[RateLimitKeyEmail(email)].first_at}

\* C8: a request that reaches the limiter inserts one challenge when both
\* counters are at most 5 after the increment and none otherwise, and is
\* answered 200 either way; no more than five challenges are inserted for
\* an email while its counter lives.
RateLimitAdmission ==
    /\ (last.op = "magic_request" /\ last.aux.kv_up) =>
            /\ last.aux.inserted =
                  IF last.aux.email_count <= RATE_LIMIT_MAX
                        /\ last.aux.ip_count <= RATE_LIMIT_MAX
                  THEN 1 ELSE 0
            /\ last.status = 200
    /\ \A e \in Emails :
            Live(RateLimitKeyEmail(e)) =>
                Cardinality(InsertedInWindow(e)) <= RATE_LIMIT_MAX

\* The sixth request for an email, from an address still under its own
\* limit, was answered 200 and inserted nothing.
RateLimitAdmissionWitness ==
    /\ last.op = "magic_request"
    /\ last.aux.kv_up
    /\ last.aux.email_count = RATE_LIMIT_MAX + 1
    /\ last.aux.ip_count <= RATE_LIMIT_MAX
    /\ last.aux.inserted = 0
    /\ last.status = 200

\* C9: a rate-limit counter is gone 600 s after the increment that created
\* it, whatever was requested meanwhile.
CounterExpiresAfterWindow ==
    \A k \in RLKeys :
        Live(k) => now < rl[k].first_at + RATE_LIMIT_WINDOW_SECONDS

\* C10: a magic-link request made while redis cannot be reached is admitted:
\* it inserts its challenge and is answered 200.
RateLimiterFailsOpen ==
    (last.op = "magic_request" /\ ~last.aux.kv_up) =>
        /\ last.status = 200
        /\ last.aux.inserted = 1

\* C11: a logout that presents the token of an existing session row is
\* answered 200 and leaves that session revoked, also when the session was
\* revoked before; invalid_refresh_token is only the answer to a token that
\* no session row has.
LogoutIdempotentSuccess ==
    /\ IsResponse("logout", "ok") =>
            /\ last.status = 200
            /\ sessions[last.aux.row].revoked_at # None
    /\ IsResponse("logout", "invalid_refresh_token") =>
            \A s \in SessionIds(sessions) :
                sessions[s].refresh_token_hash # hash_token(last.aux.token)
    /\ \A p \in Procs :
            (Busy(p) /\ tx[p].op = "logout") => ENABLED LogoutFinish(p)

\* A logout of a session that a rotation had revoked before was answered 200.
LogoutIdempotentSuccessWitness ==
    /\ IsResponse("logout", "ok")
    /\ refresh_ok[last.aux.row] = 1
    /\ sessions[last.aux.row].revoked_at = Some(last.aux.now)

\* C12: the logout-all of user u leaves every session of u that was there
\* when its UPDATE started revoked, and leaves the sessions of every other
\* user as they were.
LogoutAllRevokesUser ==
    [][\A p \in Procs :
            LogoutAllFinish(p) =>
                \A i \in SessionIds(sessions) :
                    IF sessions[i].user_id = tx[p].user_id
                    THEN i \in tx[p].rows => sessions'[i].revoked_at # None
                    ELSE sessions'[i] = sessions[i]]_vars

\* A logout-all was answered while its user has only revoked sessions and
\* another user still has an unrevoked one.
LogoutAllRevokesUserWitness ==
    /\ IsResponse("logout_all", "ok")
    /\ \E i \in SessionIds(sessions) : Some(sessions[i].user_id) = last.aux.user_id
    /\ \A i \in SessionIds(sessions) :
            Some(sessions[i].user_id) = last.aux.user_id =>
                sessions[i].revoked_at # None
    /\ \E i \in SessionIds(sessions) :
            /\ Some(sessions[i].user_id) # last.aux.user_id
            /\ sessions[i].revoked_at = None

\* C13: a logout-all that follows a logout-all of the same user, with no
\* other call in between, changes no session row.
LogoutAllIdempotent ==
    [][(/\ IsResponse("logout_all", "ok")
        /\ LogoutAllFinish(1)
        /\ Some(tx[1].user_id) = last.aux.user_id) => sessions' = sessions]_vars

\* A bearer token the middleware takes a subject from, at the present time.
ValidBearer(cookie) ==
    cookie # None /\ cookie[1].sig = "jwt_secret" /\ cookie[1].exp > now

\* C18: without a valid unexpired access token get-me and logout-all answer
\* 401 unauthorized and change no session; with one they act on the user
\* its subject names and on no other.
BearerFailsClosed ==
    [][\A cookie \in AccessCookies :
        /\ Me(cookie) =>
                IF ValidBearer(cookie)
                THEN /\ last'.status = 200
                     /\ last'.aux.user_id = Some(cookie[1].sub)
                ELSE /\ last'.status = 401 /\ last'.detail = "unauthorized"
                     /\ sessions' = sessions
        /\ LogoutAllStart(1, cookie) =>
                IF ValidBearer(cookie)
                THEN /\ tx'[1].op = "logout_all"
                     /\ tx'[1].user_id = cookie[1].sub
                ELSE /\ last'.status = 401 /\ last'.detail = "unauthorized"
                     /\ sessions' = sessions /\ tx' = tx
        /\ LogoutAllFinish(1) =>
                \A i \in SessionIds(sessions) :
                    sessions'[i] # sessions[i] => sessions[i].user_id = tx[1].user_id
       ]_vars

\* Get-me was answered 401 to a token this service signed and that has
\* expired since.
BearerFailsClosedWitness ==
    /\ IsResponse("me", "unauthorized")
    /\ last.aux.cookie # None
    /\ last.aux.cookie[1].sig = "jwt_secret"
    /\ last.aux.cookie[1].exp <= now

\* The sessions verify-magic created: the roots of the rotation chains.
Roots == {r \in SessionIds(sessions) : sessions[r].rotated_from_session_id = None}

Active(i) ==
    sessions[i].revoked_at = None /\ sessions[i].refresh_expires_at > now

ActiveInChain(r) ==
    {d \in collect_session_chain_ids(sessions, r) : Active(d)}

\* C14: at every moment each rotation chain holds at most one session that
\* is neither revoked nor expired.
OneActivePerChain ==
    \A r \in Roots : Cardinality(ActiveInChain(r)) <= 1

\* A chain of three sessions, two rotated and revoked, the last one active.
OneActivePerChainWitness ==
    \E r \in Roots :
        /\ Cardinality(collect_session_chain_ids(sessions, r)) = 3
        /\ Cardinality(ActiveInChain(r)) = 1

\* The transaction waited for its row's lock before it read the row.
Waited(p) == "seen" \in DOMAIN tx[p]

ValidAt(row, at) == row.revoked_at = None /\ row.refresh_expires_at > at

\* C15: of two overlapping refreshes of the same valid token, the one that
\* holds the row lock succeeds and revokes the session, and the one that
\* waited is answered refresh_token_reuse: it reads revoked_at set, rotates
\* nothing, and is never answered invalid_refresh_token.
ConcurrentRefreshResolves ==
    [][\A p \in Procs :
            (/\ RefreshFinish(p)
             /\ Waited(p)
             /\ ValidAt(tx[p].seen, tx[p].now)) =>
                /\ refresh_ok[tx[p].row] = 1
                /\ sessions[tx[p].row].revoked_at # None
                /\ tx[p].current.revoked_at # None
                /\ last'.detail = "refresh_token_reuse"
                /\ refresh_ok'[tx[p].row] = 1]_vars

\* The second of two overlapping refreshes of a valid token has the lock,
\* after the first one rotated the session, and has read revoked_at set.
ConcurrentRefreshResolvesWitness ==
    \E p \in Procs :
        /\ Busy(p) /\ tx[p].op = "refresh" /\ Waited(p)
        /\ ValidAt(tx[p].seen, tx[p].now)
        /\ tx[p].current.revoked_at # None
        /\ refresh_ok[tx[p].row] = 1

AuthDenied ==
    {"invalid_or_expired_token", "invalid_refresh_token",
     "refresh_token_expired", "refresh_token_reuse", "session_hijacking"}

\* C16: a verify, refresh or logout that is answered with one of the
\* auth-denied tags leaves the users, challenges and sessions tables as
\* they were before it: whatever its transaction wrote is rolled back.
AuthDeniedAborts ==
    [][(last'.op \in {"verify", "refresh", "logout"} /\ last'.detail \in AuthDenied)
            => UNCHANGED <<users, challenges, sessions>>]_vars

\* A refresh was answered refresh_token_expired and the presented session,
\* which the expired branch had revoked inside the transaction, is still
\* unrevoked in the database.
AuthDeniedAbortsWitness ==
    /\ IsResponse("refresh", "refresh_token_expired")
    /\ sessions[last.aux.row].revoked_at = None

\* C17: after a verify that found a valid challenge and ended in an
\* integrity error, presenting that challenge's token again finds no valid
\* challenge (it would be answered invalid_or_expired_token).
IntegrityErrorBurnsChallenge ==
    IsResponse("verify", "internal_error") =>
        ValidChallenges(last.aux.row, now) = {}

\* C19: a refresh of session s that succeeds at time t (the time the call
\* read) appends one session: rotated from s, of s's user, unrevoked,
\* expiring at t + 30 days, with the request's address and user agent; it
\* sets s.revoked_at = t and leaves every other session as it was.
RotationEffect ==
    [][\A p \in Procs :
            (RefreshFinish(p) /\ last'.detail = "ok") =>
                LET s == tx[p].row
                    n == Len(sessions) + 1
                IN  /\ Len(sessions') = n
                    /\ sessions'[n].rotated_from_session_id = Some(s)
                    /\ sessions'[n].user_id = sessions[s].user_id
                    /\ sessions'[n].revoked_at = None
                    /\ sessions'[n].refresh_expires_at =
                            tx[p].now + refresh_token_ttl_days * SecondsPerDay
                    /\ sessions'[n].ip = tx[p].ip
                    /\ sessions'[n].user_agent = tx[p].ua
                    /\ \A i \in SessionIds(sessions) \ {n} :
                            sessions'[n].refresh_token_hash
                                # sessions'[i].refresh_token_hash
                    /\ sessions[s].revoked_at = None
                    /\ sessions'[s] = [sessions[s] EXCEPT
                                            !.revoked_at = Some(tx[p].now)]
                    /\ \A i \in SessionIds(sessions) \ {s} :
                            sessions'[i] = sessions[i]]_vars

\* A refresh from a client that sent no user agent succeeded: the new
\* session is linked to the presented one, which is revoked, and carries
\* the request's (absent) user agent, not the stored one.
RotationEffectWitness ==
    /\ IsResponse("refresh", "ok")
    /\ \E n \in SessionIds(sessions) :
            /\ sessions[n].rotated_from_session_id = Some(last.aux.row)
            /\ sessions[n].user_agent # sessions[last.aux.row].user_agent
            /\ sessions[n].revoked_at = None
            /\ sessions[last.aux.row].revoked_at = Some(last.aux.now)

\* C20: a verify that succeeds at time t on a challenge for email e sets
\* the challenge's used_at to t, inserts a user with email e when there is
\* none and no user otherwise, and appends one unrevoked session of that
\* user, rotated from nothing; no two users ever share a normalized email.
VerifyEffect ==
    [][/\ \A u1, u2 \in 1..Len(users') :
                normalize_email(users'[u1].email) = normalize_email(users'[u2].email)
                    => u1 = u2
       /\ \A c \in 1..Len(challenges') :
                challenges'[c].email = normalize_email(challenges'[c].email)
       /\ \A p \in Procs :
            (VerifyFinish(p) /\ last'.detail = "ok") =>
                LET c == tx[p].row
                    e == challenges[c].email
                    n == Len(sessions) + 1
                    existing == {u \in 1..Len(users) : users[u].email = e}
                IN  /\ challenges[c].used_at = None
                    /\ challenges' =
                            [challenges EXCEPT ![c].used_at = Some(tx[p].now)]
                    /\ users' = IF existing = {}
                                THEN Append(users, [email |-> e])
                                ELSE users
                    /\ Len(sessions') = n
                    /\ SubSeq(sessions', 1, n - 1) = sessions
                    /\ users'[sessions'[n].user_id].email = e
                    /\ sessions'[n].rotated_from_session_id = None
                    /\ sessions'[n].revoked_at = None]_vars

\* Two challenges for one email have been verified: there is one user, and
\* each verify left a session of that user that is rotated from nothing.
VerifyEffectWitness ==
    /\ IsResponse("verify", "ok")
    /\ Len(users) = 1
    /\ Len(challenges) = 2
    /\ \A c \in 1..Len(challenges) : verify_ok[c] = 1 /\ challenges[c].used_at # None
    /\ Cardinality({i \in SessionIds(sessions) :
                        /\ sessions[i].rotated_from_session_id = None
                        /\ sessions[i].user_id = 1}) = 2

\* The sessions one rotation below a set of sessions.
ChildrenOf(S) ==
    {i \in SessionIds(sessions) :
        /\ sessions[i].rotated_from_session_id # None
        /\ sessions[i].rotated_from_session_id[1] \in S}

\* s and everything reachable from s from parent to child.
RECURSIVE Subtree(_, _)
Subtree(S, n) == IF n = 0 THEN S ELSE Subtree(S \cup ChildrenOf(S), n - 1)

Descendants(s) == Subtree({s}, Len(sessions))

\* C21: revoking the chain of session s sets revoked_at on s and on every
\* session reachable from s from parent to child, at any depth, and leaves
\* every other session (the ancestors of s, the other chains) as it was.
RevokeChainFrame ==
    \A s \in SessionIds(sessions) :
        LET revoked == revoke_session_chain(sessions, s, now)
        IN  /\ Len(revoked) = Len(sessions)
            /\ \A i \in SessionIds(sessions) :
                    IF i \in Descendants(s)
                    THEN revoked[i] = [sessions[i] EXCEPT !.revoked_at = Some(now)]
                    ELSE revoked[i] = sessions[i]

\* A refresh ran the reuse branch, and with it the chain revocation, on a
\* session that has a parent and a child.
RevokeChainFrameWitness ==
    /\ IsResponse("refresh", "refresh_token_reuse")
    /\ sessions[last.aux.row].rotated_from_session_id # None
    /\ Cardinality(Descendants(last.aux.row)) = 2

BothPresentAndDiffer(stored, presented) ==
    stored # None /\ presented # None /\ stored # presented

\* C22: a refresh of an unrevoked, unexpired session is answered
\* session_hijacking exactly when the stored and the presented address are
\* both non-null and differ, or the stored and the presented user agent
\* are both non-null and differ; it succeeds otherwise.
HijackCheckWhenBothPresent ==
    [][\A p \in Procs :
            (RefreshFinish(p) /\ ValidAt(tx[p].current, tx[p].now)) =>
                last'.detail =
                    IF \/ BothPresentAndDiffer(tx[p].current.ip, tx[p].ip)
                       \/ BothPresentAndDiffer(tx[p].current.user_agent, tx[p].ua)
                    THEN "session_hijacking"
                    ELSE "ok"]_vars

\* C23: a logout that succeeds sets revoked_at on the session whose digest
\* matches the presented token and changes nothing else: no other field of
\* that row and no other session, the descendants of the row included.
LogoutTouchesOneSession ==
    [][\A p \in Procs :
            LogoutFinish(p) =>
                /\ last'.status = 200
                /\ sessions[tx[p].row].refresh_token_hash = hash_token(tx[p].row)
                /\ sessions' = [sessions EXCEPT
                                    ![tx[p].row].revoked_at = Some(tx[p].now)]
                /\ \A i \in SessionIds(sessions) \ {tx[p].row} :
                        sessions'[i] = sessions[i]]_vars

\* A logout with an already rotated token was answered 200 and the child
\* of the presented session is still unrevoked.
LogoutTouchesOneSessionWitness ==
    /\ IsResponse("logout", "ok")
    /\ sessions[last.aux.row].revoked_at = Some(last.aux.now)
    /\ \E i \in SessionIds(sessions) :
            /\ sessions[i].rotated_from_session_id = Some(last.aux.row)
            /\ sessions[i].revoked_at = None

\* C24: once a logout-all of user u has committed, every session of u
\* that a rotation inserted, the child of a refresh that overlapped the
\* logout-all included, is revoked.
LogoutAllCoversRotation ==
    IsResponse("logout_all", "ok") =>
        \A i \in SessionIds(sessions) :
            (/\ Some(sessions[i].user_id) = last.aux.user_id
             /\ sessions[i].rotated_from_session_id # None)
                => sessions[i].revoked_at # None

\* The session verify-magic created at the head of i's rotation chain.
RECURSIVE RootOf(_)
RootOf(i) ==
    IF sessions[i].rotated_from_session_id = None THEN i
    ELSE RootOf(sessions[i].rotated_from_session_id[1])

\* C25: a rotated session stores the address and the user agent of the
\* refresh that created it; in a chain whose root has a non-null user agent
\* (address), no session was created by a refresh that presented another
\* non-null user agent (address).
HijackBindingSurvivesRotation ==
    \A i \in SessionIds(sessions) :
        LET root == sessions[RootOf(i)]
        IN  /\ (root.user_agent # None /\ sessions[i].user_agent # None)
                    => sessions[i].user_agent = root.user_agent
            /\ (root.ip # None /\ sessions[i].ip # None)
                    => sessions[i].ip = root.ip

\* The same for values that are neither null nor empty.
HijackBindingSurvivesRotationNonEmpty ==
    \A i \in SessionIds(sessions) :
        LET root == sessions[RootOf(i)]
        IN  /\ (Truthy(root.user_agent) /\ Truthy(sessions[i].user_agent))
                    => sessions[i].user_agent = root.user_agent
            /\ (Truthy(root.ip) /\ Truthy(sessions[i].ip))
                    => sessions[i].ip = root.ip

====
